---- MODULE Spec2Model ----
(***************************************************************************)
(* Intersection of two segments in 3D space (src/main.cpp).                *)
(*                                                                         *)
(* A double is modelled as an exact rational (or NaN, or an infinity): the *)
(* inputs are integer points, so every product and sum the code forms is   *)
(* exact, and the quotients and the rounding to 6 decimals are kept as     *)
(* exact fractions.  A finite value is ip + fn/fd with 0 <= fn < fd and    *)
(* fn/fd in lowest terms, so that equal values are equal records and the   *)
(* integer part never multiplies a large denominator.                      *)
(***************************************************************************)
EXTENDS Integers, Sequences, FiniteSets, TLC

\* ------------------------------------------------------------------ bounds
\* Input points have integer coordinates in 0..MaxX x 0..MaxY x 0..MaxZ.
MaxX == 3
MaxY == 1
MaxZ == 1

\* ------------------------------------------------------------ double values
Abs(k) == IF k < 0 THEN -k ELSE k

RECURSIVE Gcd(_, _)
Gcd(a, b) == IF b = 0 THEN a ELSE Gcd(b, a % b)

Lcm(a, b) == a * (b \div Gcd(a, b))

NaN == [kind |-> "nan", ip |-> 0, fn |-> 0, fd |-> 1]

\* +infinity (sign = 1) or -infinity (sign = -1)
Inf(sign) == [kind |-> "inf", ip |-> sign, fn |-> 0, fd |-> 1]

\* the finite value ip + n/d (d > 0, n any integer), normalised
Mk(ip, n, d) ==
    IF n = 0 THEN [kind |-> "num", ip |-> ip, fn |-> 0, fd |-> 1]
    ELSE LET q == n \div d
             r == n % d
             g == Gcd(r, d)
         IN [kind |-> "num", ip |-> ip + q, fn |-> r \div g, fd |-> d \div g]

FromInt(k) == [kind |-> "num", ip |-> k, fn |-> 0, fd |-> 1]

IsNum(x) == x.kind = "num"
IsNaN(x) == x.kind = "nan"

\* sign of a non-NaN value: -1, 0 or 1
Sign(x) ==
    IF x.kind = "inf" THEN x.ip
    ELSE IF x.ip < 0 THEN -1
    ELSE IF x.ip = 0 /\ x.fn = 0 THEN 0
    ELSE 1

Neg(x) ==
    IF x.kind = "nan" THEN NaN
    ELSE IF x.kind = "inf" THEN Inf(-x.ip)
    ELSE Mk(-x.ip, -x.fn, x.fd)

Add(x, y) ==
    IF x.kind = "nan" \/ y.kind = "nan" THEN NaN
    ELSE IF x.kind = "inf" /\ y.kind = "inf"
         THEN IF x.ip = y.ip THEN x ELSE NaN
    ELSE IF x.kind = "inf" THEN x
    ELSE IF y.kind = "inf" THEN y
    ELSE IF x.fn = 0 /\ y.fn = 0 THEN FromInt(x.ip + y.ip)
    ELSE LET l == Lcm(x.fd, y.fd)
         IN Mk(x.ip + y.ip, x.fn * (l \div x.fd) + y.fn * (l \div y.fd), l)

Sub(x, y) == Add(x, Neg(y))

\* the integer k times the fraction n/d, reducing k against d first
MulIntFrac(k, n, d) ==
    LET g == Gcd(Abs(k), d)
    IN IF k = 0 \/ n = 0 THEN FromInt(0) ELSE Mk(0, (k \div g) * n, d \div g)

\* the fraction n1/d1 times the fraction n2/d2
MulFracFrac(n1, d1, n2, d2) ==
    IF n1 = 0 \/ n2 = 0 THEN FromInt(0)
    ELSE LET g1 == Gcd(n1, d2)
             g2 == Gcd(n2, d1)
         IN Mk(0, (n1 \div g1) * (n2 \div g2), (d1 \div g2) * (d2 \div g1))

Mul(x, y) ==
    IF x.kind = "nan" \/ y.kind = "nan" THEN NaN
    ELSE IF x.kind = "inf" \/ y.kind = "inf"
         THEN IF Sign(x) = 0 \/ Sign(y) = 0 THEN NaN ELSE Inf(Sign(x) * Sign(y))
    ELSE IF x.fn = 0 /\ y.fn = 0 THEN FromInt(x.ip * y.ip)
    ELSE Add(Add(FromInt(x.ip * y.ip), MulIntFrac(x.ip, y.fn, y.fd)),
             Add(MulIntFrac(y.ip, x.fn, x.fd),
                 MulFracFrac(x.fn, x.fd, y.fn, y.fd)))

\* 1/y for a finite y > 0
RecipPos(y) ==
    LET n == y.ip * y.fd + y.fn
    IN Mk(0, y.fd, n)

Div(x, y) ==
    IF x.kind = "nan" \/ y.kind = "nan" THEN NaN
    ELSE IF y.kind = "inf"
         THEN IF x.kind = "inf" THEN NaN ELSE FromInt(0)
    ELSE IF Sign(y) = 0
         THEN IF Sign(x) = 0 THEN NaN ELSE Inf(Sign(x))
    ELSE IF x.kind = "inf" THEN Inf(Sign(x) * Sign(y))
    ELSE IF Sign(y) > 0 THEN Mul(x, RecipPos(y))
    ELSE Neg(Mul(x, RecipPos(Neg(y))))

\* x < y as the hardware compares doubles: false when either is NaN
Lt(x, y) ==
    IF x.kind = "nan" \/ y.kind = "nan" THEN FALSE
    ELSE IF x.kind = "inf" THEN x.ip = -1 /\ ~(y.kind = "inf" /\ y.ip = -1)
    ELSE IF y.kind = "inf" THEN y.ip = 1
    ELSE IF x.ip # y.ip THEN x.ip < y.ip
    ELSE IF x.fd = y.fd THEN x.fn < y.fn
    ELSE LET g == Gcd(x.fd, y.fd)
         IN x.fn * (y.fd \div g) < y.fn * (x.fd \div g)

Gt(x, y) == Lt(y, x)

\* x <= y: false when either is NaN
Le(x, y) ==
    IF x.kind = "nan" \/ y.kind = "nan" THEN FALSE ELSE ~Lt(y, x)

\* ----------------------------------------------------------------- constants
\* eps = 10e-6 = 1/EpsInv
EpsInv == 100000
eps == Mk(0, 1, EpsInv)

\* the number of decimals t is rounded to
RoundDigits == 6

\* ------------------------------------------------------------------ Vector3D
Vector3D(x, y, z) == [X |-> x, Y |-> y, Z |-> z]

\* a vector with integer coordinates
Point(x, y, z) == Vector3D(FromInt(x), FromInt(y), FromInt(z))

NaNVector == Vector3D(NaN, NaN, NaN)

dot_product(this, v) ==
    Add(Add(Mul(v.X, this.X), Mul(v.Y, this.Y)), Mul(v.Z, this.Z))

cross_product(this, v) ==
    Vector3D(Sub(Mul(this.Y, v.Z), Mul(this.Z, v.Y)),
             Neg(Sub(Mul(this.X, v.Z), Mul(this.Z, v.X))),
             Sub(Mul(this.X, v.Y), Mul(this.Y, v.X)))

VSub(this, v) == Vector3D(Sub(this.X, v.X), Sub(this.Y, v.Y), Sub(this.Z, v.Z))

VAdd(this, v) == Vector3D(Add(this.X, v.X), Add(this.Y, v.Y), Add(this.Z, v.Z))

VScale(this, factor) ==
    Vector3D(Mul(this.X, factor), Mul(this.Y, factor), Mul(this.Z, factor))

is_nan(this) == IsNaN(this.X) \/ IsNaN(this.Y) \/ IsNaN(this.Z)

\* operator==: one-sided, (v.axis - this.axis) <= eps on every axis
VEq(this, v) ==
    /\ Le(Sub(v.X, this.X), eps)
    /\ Le(Sub(v.Y, this.Y), eps)
    /\ Le(Sub(v.Z, this.Z), eps)

\* operator!=
VNeq(this, v) == ~VEq(this, v)

(***************************************************************************)
(* length() is sqrt(X*X + Y*Y + Z*Z), in general irrational: the length    *)
(* of a vector is kept as the vector it is the norm of, and the three uses *)
(* the code makes of a length (length < x, length > x, and the sign of a   *)
(* quotient of two lengths) are decided exactly on the squares.            *)
(***************************************************************************)
length(this) == [of |-> this]

HasNaN(w) == IsNaN(w.X) \/ IsNaN(w.Y) \/ IsNaN(w.Z)
HasInf(w) == w.X.kind = "inf" \/ w.Y.kind = "inf" \/ w.Z.kind = "inf"
IsZeroVector(w) ==
    /\ IsNum(w.X) /\ IsNum(w.Y) /\ IsNum(w.Z)
    /\ Sign(w.X) = 0 /\ Sign(w.Y) = 0 /\ Sign(w.Z) = 0

\* |x| > 1 for a finite x
AbsGt1(x) == Lt(FromInt(1), x) \/ Lt(x, FromInt(-1))

\* the numerator of a finite x, |x| <= 1, over the denominator l
NumOver(x, l) == (x.ip * x.fd + x.fn) * (l \div x.fd)

\* the sign of |w| - 1 for a vector w of finite coordinates
CmpNorm1(w) ==
    IF AbsGt1(w.X) \/ AbsGt1(w.Y) \/ AbsGt1(w.Z) THEN 1
    ELSE LET l == Lcm(Lcm(w.X.fd, w.Y.fd), w.Z.fd)
             nx == NumOver(w.X, l)
             ny == NumOver(w.Y, l)
             nz == NumOver(w.Z, l)
             ss == nx * nx + ny * ny + nz * nz
         IN IF ss > l * l THEN 1 ELSE IF ss = l * l THEN 0 ELSE -1

\* len < x, for a length len and a finite x > 0
LenLt(len, x) ==
    IF HasNaN(len.of) \/ HasInf(len.of) THEN FALSE
    ELSE CmpNorm1(VScale(len.of, Div(FromInt(1), x))) < 0

\* len > x, for a length len and a finite x > 0
LenGt(len, x) ==
    IF HasNaN(len.of) THEN FALSE
    ELSE IF HasInf(len.of) THEN TRUE
    ELSE CmpNorm1(VScale(len.of, Div(FromInt(1), x))) > 0

\* fabs of a length
fabs(len) == len

\* the quotient of two lengths, as far as the code looks at it:
\* "nan" (0/0 or a NaN operand), "zero", or "pos" (positive or +infinity)
LenDiv(len1, len2) ==
    IF HasNaN(len1.of) \/ HasNaN(len2.of) THEN "nan"
    ELSE IF HasInf(len1.of) /\ HasInf(len2.of) THEN "nan"
    ELSE IF IsZeroVector(len1.of) /\ IsZeroVector(len2.of) THEN "nan"
    ELSE IF IsZeroVector(len1.of) \/ HasInf(len2.of) THEN "zero"
    ELSE "pos"

\* q > 0 for a quotient of lengths: false for NaN
QuotGt0(q) == q = "pos"

\* ----------------------------------------------------------------- Segment3D
Segment3D(s, e) == [start |-> s, end |-> e]

\* -------------------------------------------------------------- round_to_n
RECURSIVE Pow10(_)
Pow10(n) == IF n = 0 THEN 1 ELSE 10 * Pow10(n - 1)

\* std::round: to the nearest integer, halves away from zero
Round(x) ==
    IF ~IsNum(x) \/ x.fn = 0 THEN x
    ELSE IF x.ip >= 0
         THEN FromInt(x.ip + (IF 2 * x.fn >= x.fd THEN 1 ELSE 0))
         ELSE FromInt(x.ip + (IF 2 * x.fn > x.fd THEN 1 ELSE 0))

round_to_n(value, n) ==
    LET factor == FromInt(Pow10(n))
    IN Div(Round(Mul(value, factor)), factor)

\* std::max(a, b) is (a < b) ? b : a and std::min(a, b) is (b < a) ? b : a
StdMax(a, b) == IF Lt(a, b) THEN b ELSE a
StdMin(a, b) == IF Lt(b, a) THEN b ELSE a

\* ------------------------------------------------------------------ Intersect
\* line 123: fabs(v.cross_product(u).length()) < eps
ParallelTest(u, v) == LenLt(fabs(length(cross_product(v, u))), eps)

\* ParallelBranch returning the last point of the overlap instead of the first
ParallelBranch_LastPoint(P1, u, Q1, Q2, w0) ==
    LET d == LenDiv(length(cross_product(u, w0)), length(u))
    IN IF QuotGt0(d) THEN NaNVector
       ELSE LET t0r == Div(dot_product(VSub(Q1, P1), u), dot_product(u, u))
                t1r == Div(dot_product(VSub(Q2, P1), u), dot_product(u, u))
                swap == Gt(t0r, t1r)
                t0 == IF swap THEN t1r ELSE t0r
                t1 == IF swap THEN t0r ELSE t1r
                t_start == StdMax(FromInt(0), t0)
                t_end == StdMin(FromInt(1), t1)
            IN IF Gt(t_start, t_end) THEN NaNVector
               ELSE VAdd(P1, VScale(u, t_end))

\* ParallelBranch without the clipping of t_start to 0
ParallelBranch_NoClip(P1, u, Q1, Q2, w0) ==
    LET d == LenDiv(length(cross_product(u, w0)), length(u))
    IN IF QuotGt0(d) THEN NaNVector
       ELSE LET t0r == Div(dot_product(VSub(Q1, P1), u), dot_product(u, u))
                t1r == Div(dot_product(VSub(Q2, P1), u), dot_product(u, u))
                swap == Gt(t0r, t1r)
                t0 == IF swap THEN t1r ELSE t0r
                t1 == IF swap THEN t0r ELSE t1r
                t_start == t0
                t_end == StdMin(FromInt(1), t1)
            IN IF Gt(t_start, t_end) THEN NaNVector
               ELSE VAdd(P1, VScale(u, t_start))

\* ParallelBranch without the test of the distance between the lines
ParallelBranch_NoDistance(P1, u, Q1, Q2, w0) ==
    LET t0r == Div(dot_product(VSub(Q1, P1), u), dot_product(u, u))
        t1r == Div(dot_product(VSub(Q2, P1), u), dot_product(u, u))
        swap == Gt(t0r, t1r)
        t0 == IF swap THEN t1r ELSE t0r
        t1 == IF swap THEN t0r ELSE t1r
        t_start == StdMax(FromInt(0), t0)
        t_end == StdMin(FromInt(1), t1)
    IN IF Gt(t_start, t_end) THEN NaNVector
       ELSE VAdd(P1, VScale(u, t_start))

\* ParallelBranch without the swap that orders t0 and t1
ParallelBranch_NoSwap(P1, u, Q1, Q2, w0) ==
    LET d == LenDiv(length(cross_product(u, w0)), length(u))
    IN IF QuotGt0(d) THEN NaNVector
       ELSE LET t0 == Div(dot_product(VSub(Q1, P1), u), dot_product(u, u))
                t1 == Div(dot_product(VSub(Q2, P1), u), dot_product(u, u))
                t_start == StdMax(FromInt(0), t0)
                t_end == StdMin(FromInt(1), t1)
            IN IF Gt(t_start, t_end) THEN NaNVector
               ELSE VAdd(P1, VScale(u, t_start))

\* lines 124-149: the branch of parallel (or degenerate) segments
ParallelBranch(P1, u, Q1, Q2, w0) ==
    LET d == LenDiv(length(cross_product(u, w0)), length(u))
    IN IF QuotGt0(d) THEN NaNVector
       ELSE LET t0r == Div(dot_product(VSub(Q1, P1), u), dot_product(u, u))
                t1r == Div(dot_product(VSub(Q2, P1), u), dot_product(u, u))
                swap == Gt(t0r, t1r)
                t0 == IF swap THEN t1r ELSE t0r
                t1 == IF swap THEN t0r ELSE t1r
                t_start == StdMax(FromInt(0), t0)
                t_end == StdMin(FromInt(1), t1)
            IN IF Gt(t_start, t_end) THEN NaNVector
               ELSE VAdd(P1, VScale(u, t_start))

\* GeneralBranch without the test of s against [0, 1]
GeneralBranch_NoBoundS(P1, u, Q1, v, a, b, c, d, e) ==
    LET demoninator == Sub(Mul(a, c), Mul(b, b))
        t == round_to_n(Div(Add(Neg(Mul(d, c)), Mul(b, e)), demoninator),
                        RoundDigits)
        s == Div(Add(e, Mul(b, t)), c)
        Pt == VAdd(P1, VScale(u, t))
        Qs == VAdd(Q1, VScale(v, s))
    IN IF LenGt(length(VSub(Pt, Qs)), eps) THEN NaNVector
       ELSE IF Gt(t, FromInt(1)) \/ Lt(t, FromInt(0))
            THEN NaNVector
       ELSE Pt

\* lines 151-180: the branch of non-parallel lines
GeneralBranch(P1, u, Q1, v, a, b, c, d, e) ==
    LET demoninator == Sub(Mul(a, c), Mul(b, b))
        t == round_to_n(Div(Add(Neg(Mul(d, c)), Mul(b, e)), demoninator),
                        RoundDigits)
        s == Div(Add(e, Mul(b, t)), c)
        Pt == VAdd(P1, VScale(u, t))
        Qs == VAdd(Q1, VScale(v, s))
    IN IF LenGt(length(VSub(Pt, Qs)), eps) THEN NaNVector
       ELSE IF Gt(t, FromInt(1)) \/ Lt(t, FromInt(0))
               \/ Gt(s, FromInt(1)) \/ Lt(s, FromInt(0))
            THEN NaNVector
       ELSE Pt

Intersect(s1, s2) ==
    LET P1 == s1.start
        P2 == s1.end
        Q1 == s2.start
        Q2 == s2.end
        u == VSub(P2, P1)
        v == VSub(Q2, Q1)
        w0 == VSub(P1, Q1)
        a == dot_product(u, u)
        b == dot_product(v, u)
        c == dot_product(v, v)
        d == dot_product(u, w0)
        e == dot_product(v, w0)
    IN IF ParallelTest(u, v) THEN ParallelBranch(P1, u, Q1, Q2, w0)
       ELSE GeneralBranch(P1, u, Q1, v, a, b, c, d, e)

\* ------------------------------------------------------------ test_intersection
Seg(a1, a2, a3, b1, b2, b3) == Segment3D(Point(a1, a2, a3), Point(b1, b2, b3))

\* lines 191-242: the table of segment pairs
TestSegments ==
    << [first |-> Seg(1, 0, 0, -1, 0, 0),   second |-> Seg(0, 1, 0, 0, -1, 0)],
       [first |-> Seg(1, 0, -1, -1, 0, 1),  second |-> Seg(0, 1, 0, 0, -1, 0)],
       [first |-> Seg(1, 0, -1, -1, 0, 1),  second |-> Seg(0, 1, 1, 0, -1, -1)],
       [first |-> Seg(1, 0, 2, -1, 0, 2),   second |-> Seg(0, 1, 0, 0, -1, 0)],
       [first |-> Seg(0, 0, 0, 1, 0, 0),    second |-> Seg(0, 1, 0, 1, 1, 0)],
       [first |-> Seg(0, 0, 0, 1, 1, 1),    second |-> Seg(2, 0, 0, 2, 1, 1)],
       [first |-> Seg(0, 0, 0, 1, 1, 1),    second |-> Seg(0, 0, 0, 1, 1, 1)],
       [first |-> Seg(0, 0, 0, 1, 1, 1),    second |-> Seg(2, 2, 2, 3, 3, 3)],
       [first |-> Seg(0, 0, 0, 1, 1, 1),    second |-> Seg(1, 1, 1, 2, 2, 2)],
       [first |-> Seg(-1, -1, 0, 1, 1, 0),  second |-> Seg(-1, 1, 0, 1, -1, 0)] >>

\* lines 244-255: the expected results, row by row
TestExpected ==
    << Point(0, 0, 0), Point(0, 0, 0), Point(0, 0, 0), NaNVector, NaNVector,
       NaNVector, Point(0, 0, 0), NaNVector, Point(1, 1, 1), Point(0, 0, 0) >>

Range(f) == {f[k] : k \in DOMAIN f}

\* ------------------------------------------------------------ specifications
\* the longest sequence of calls of the call-sequence specification
MaxCalls == 3
\* the number of rows of the table of the harness specification
NumCases == 2

Coords == [X : 0..MaxX, Y : 0..MaxY, Z : 0..MaxZ]
Points == {Point(p.X, p.Y, p.Z) : p \in Coords}
AllSegments == {Segment3D(p, q) : p \in Points, q \in Points}

VARIABLES
    segment1, segment2,  \* the caller's two segments
    called,              \* Intersect has returned for them
    result,              \* what it returned
    log,                 \* the calls made so far: arguments and result
    segments,            \* test_intersection: the table of segment pairs
    expected_results,    \* test_intersection: the expected results
    i,                   \* test_intersection: the loop index
    test_passed,
    test_failed,
    printed              \* test_intersection: the cases reported "test failed"

vars == <<segment1, segment2, called, result, log, segments, expected_results,
          i, test_passed, test_failed, printed>>

testVars == <<segments, expected_results, i, test_passed, test_failed, printed>>

NoTest ==
    /\ segments = <<>>
    /\ expected_results = <<>>
    /\ i = 0
    /\ test_passed = 0
    /\ test_failed = 0
    /\ printed = {}

Call(s1, s2, r) == [first |-> s1, second |-> s2, result |-> r]

\* CallIntersect with a second segment that outlives the call: each call
\* after the first reads the one of the call before
CallIntersect_Stale ==
    /\ ~called
    /\ called' = TRUE
    /\ result' = Intersect(segment1,
                           IF log = <<>> THEN segment2
                           ELSE log[Len(log)].second)
    /\ log' = Append(log, Call(segment1, segment2, result'))
    /\ UNCHANGED <<segment1, segment2>>
    /\ UNCHANGED testVars

\* one call Intersect(segment1, segment2): the segments are passed by value,
\* and the function reads and writes nothing else
CallIntersect ==
    /\ ~called
    /\ called' = TRUE
    /\ result' = Intersect(segment1, segment2)
    /\ log' = Append(log, Call(segment1, segment2, result'))
    /\ UNCHANGED <<segment1, segment2>>
    /\ UNCHANGED testVars

\* the caller goes on to another pair of segments
NextCall ==
    /\ called
    /\ Len(log) < MaxCalls
    /\ \E c \in Range(TestSegments) :
          /\ segment1' = c.first
          /\ segment2' = c.second
    /\ called' = FALSE
    /\ UNCHANGED <<result, log>>
    /\ UNCHANGED testVars

\* Intersect on every pair of segments with endpoints in the grid
Init ==
    /\ segment1 \in AllSegments
    /\ segment2 \in AllSegments
    /\ called = FALSE
    /\ result = NaNVector
    /\ log = <<>>
    /\ NoTest

Next == CallIntersect

Spec == Init /\ [][Next]_vars

\* a sequence of calls on pairs of segments of the test table
InitCalls ==
    /\ \E c \in Range(TestSegments) :
          /\ segment1 = c.first
          /\ segment2 = c.second
    /\ called = FALSE
    /\ result = NaNVector
    /\ log = <<>>
    /\ NoTest

NextCalls == CallIntersect \/ NextCall

SpecCalls == InitCalls /\ [][NextCalls]_vars

\* test_intersection, lines 257-260: an iteration of the loop calls Intersect
\* on row i of the table
TestCase ==
    /\ i < Len(segments)
    /\ segment1' = segments[i + 1].first
    /\ segment2' = segments[i + 1].second
    /\ result' = Intersect(segment1', segment2')
    /\ called' = TRUE
    /\ log' = Append(log, Call(segment1', segment2', result'))
    /\ i' = i + 1
    /\ UNCHANGED <<segments, expected_results>>

\* lines 263 and 272: test_passed++
CountPassed ==
    /\ test_passed' = test_passed + 1
    /\ UNCHANGED <<test_failed, printed>>

\* lines 268-269: test_failed++ and the case is printed
CountFailed ==
    /\ test_failed' = test_failed + 1
    /\ printed' = printed \cup {i}
    /\ UNCHANGED test_passed

\* lines 261-265: result and expected are both NaN
CaseBothNaN ==
    /\ TestCase
    /\ is_nan(result') /\ is_nan(expected_results[i + 1])
    /\ CountPassed

\* lines 266-269: result != expected
CaseFailed ==
    /\ TestCase
    /\ ~(is_nan(result') /\ is_nan(expected_results[i + 1]))
    /\ VNeq(result', expected_results[i + 1])
    /\ CountFailed

\* lines 270-273: otherwise
CasePassed ==
    /\ TestCase
    /\ ~(is_nan(result') /\ is_nan(expected_results[i + 1]))
    /\ ~VNeq(result', expected_results[i + 1])
    /\ CountPassed

\* the tables of n rows drawn from rows
RECURSIVE Tables(_, _)
Tables(rows, n) ==
    IF n = 0 THEN {<<>>}
    ELSE {Append(t, r) : t \in Tables(rows, n - 1), r \in rows}

\* the harness on a table of NumCases rows, each a pair of segments and an
\* expected result of the source's table
InitTest ==
    /\ segments \in Tables(Range(TestSegments), NumCases)
    /\ expected_results \in Tables(Range(TestExpected), NumCases)
    /\ i = 0
    /\ test_passed = 0
    /\ test_failed = 0
    /\ printed = {}
    /\ segment1 = segments[1].first
    /\ segment2 = segments[1].second
    /\ called = FALSE
    /\ result = NaNVector
    /\ log = <<>>

NextTest == CaseBothNaN \/ CaseFailed \/ CasePassed

SpecTest == InitTest /\ [][NextTest]_vars

\* ------------------------------------------------- geometry of the inputs
\* (exact, on the integer endpoints; independent of Intersect)
Degenerate(s) == s.start = s.end

ZeroVector == Point(0, 0, 0)

Dir1 == VSub(segment1.end, segment1.start)
Dir2 == VSub(segment2.end, segment2.start)
Offset == VSub(segment1.start, segment2.start)

\* x lies on the line through the non-degenerate segment s
OnLine(x, s) ==
    cross_product(VSub(s.end, s.start), VSub(x, s.start)) = ZeroVector

\* x is a point of the segment s
OnSegment(x, s) ==
    IF Degenerate(s) THEN x = s.start
    ELSE LET dir == VSub(s.end, s.start)
             k == dot_product(VSub(x, s.start), dir)
         IN /\ ~is_nan(x)
            /\ OnLine(x, s)
            /\ Le(FromInt(0), k)
            /\ Le(k, dot_product(dir, dir))

\* the point of the non-degenerate segment s nearest to x
Nearest(x, s) ==
    LET dir == VSub(s.end, s.start)
        k == Div(dot_product(VSub(x, s.start), dir), dot_product(dir, dir))
        kc == IF Lt(k, FromInt(0)) THEN FromInt(0)
              ELSE IF Lt(FromInt(1), k) THEN FromInt(1) ELSE k
    IN VAdd(s.start, VScale(dir, kc))

\* x is within eps of the segment s
NearSegment(x, s) ==
    /\ ~is_nan(x)
    /\ ~LenGt(length(VSub(x, Nearest(x, s))), eps)

\* |x - y| <= eps
NearValue(x, y) == Le(Sub(x, y), eps) /\ Le(Sub(y, x), eps)

\* every coordinate of x is within eps of that of y
NearPoint(x, y) ==
    NearValue(x.X, y.X) /\ NearValue(x.Y, y.Y) /\ NearValue(x.Z, y.Z)

\* both segments lie on one line
Collinear ==
    /\ ~Degenerate(segment1)
    /\ OnLine(segment2.start, segment1)
    /\ OnLine(segment2.end, segment1)

EndPoints(s) == {s.start, s.end}
SharedEnds == EndPoints(segment1) \cap EndPoints(segment2)
SharedEnd == CHOOSE x \in SharedEnds : TRUE
OtherEnd(s) == IF s.start = SharedEnd THEN s.end ELSE s.start

\* two non-degenerate segments on one line with exactly one common endpoint
ShareOneEnd ==
    /\ ~Degenerate(segment1) /\ ~Degenerate(segment2)
    /\ Collinear
    /\ Cardinality(SharedEnds) = 1

\* ... that lie on opposite sides of it: it is their only common point
TouchOnly ==
    /\ ShareOneEnd
    /\ Lt(dot_product(VSub(OtherEnd(segment1), SharedEnd),
                      VSub(OtherEnd(segment2), SharedEnd)), FromInt(0))

\* the lines are not parallel: cross(u, v) # 0
NonParallel == cross_product(Dir1, Dir2) # ZeroVector

\* the lines lie in one plane: w0 . (u x v) = 0
Coplanar == dot_product(Offset, cross_product(Dir1, Dir2)) = FromInt(0)

\* the parameters of the common point of two non-parallel coplanar lines
\* (Cramer's rule on  w0 + t u = s v)
CrossDen ==
    Sub(Mul(dot_product(Dir1, Dir1), dot_product(Dir2, Dir2)),
        Mul(dot_product(Dir1, Dir2), dot_product(Dir1, Dir2)))
ExactT ==
    Div(Sub(Mul(dot_product(Dir1, Dir2), dot_product(Dir2, Offset)),
            Mul(dot_product(Dir2, Dir2), dot_product(Dir1, Offset))), CrossDen)
ExactS ==
    Div(Sub(Mul(dot_product(Dir1, Dir1), dot_product(Dir2, Offset)),
            Mul(dot_product(Dir1, Dir2), dot_product(Dir1, Offset))), CrossDen)
InUnit(x) == Le(FromInt(0), x) /\ Le(x, FromInt(1))
CommonPoint == VAdd(segment1.start, VScale(Dir1, ExactT))

\* two non-parallel segments with a common point
Crossing ==
    /\ NonParallel /\ Coplanar
    /\ InUnit(ExactT) /\ InUnit(ExactS)

\* parameters of segment2's endpoints along segment1 (P1 at 0, P2 at 1)
Param(x) ==
    Div(dot_product(VSub(x, segment1.start), Dir1), dot_product(Dir1, Dir1))
ParamLo ==
    IF Lt(Param(segment2.end), Param(segment2.start))
    THEN Param(segment2.end) ELSE Param(segment2.start)
ParamHi ==
    IF Lt(Param(segment2.end), Param(segment2.start))
    THEN Param(segment2.start) ELSE Param(segment2.end)
OverlapLo == IF Lt(ParamLo, FromInt(0)) THEN FromInt(0) ELSE ParamLo
OverlapHi == IF Lt(FromInt(1), ParamHi) THEN FromInt(1) ELSE ParamHi

\* -------------------------------------------------------------------- claims

\* C1: Intersect(S1, S2) is the NaN sentinel iff Intersect(S2, S1) is, for
\* every pair of segments, zero-length ones included.
C1_Symmetry ==
    called => (is_nan(result) <=> is_nan(Intersect(segment2, segment1)))

\* C2: for a segment S with distinct ends, Intersect(S, S) takes the parallel
\* branch and returns S.start, a point of S, never the NaN sentinel.
C2_SelfIntersection ==
    (called /\ segment1 = segment2 /\ ~Degenerate(segment1))
        => /\ ParallelTest(Dir1, Dir2)
           /\ ~is_nan(result)
           /\ result = segment1.start
           /\ OnSegment(result, segment1)

C2_Witness ==
    /\ called /\ segment1 = segment2 /\ ~Degenerate(segment1)
    /\ result = segment1.start

\* C3 as claimed: two non-degenerate segments on one line that share exactly
\* one endpoint yield that endpoint, in either argument order.
C3_SharedEndpoint ==
    (called /\ ShareOneEnd) => result = SharedEnd

\* C3 as amended: two non-degenerate segments on one line whose only common
\* point is a shared endpoint yield that endpoint, in either argument order.
C3_TouchingEndpoint ==
    (called /\ TouchOnly) => result = SharedEnd

C3_Witness ==
    /\ called /\ TouchOnly
    /\ result = SharedEnd
    /\ SharedEnd = segment1.start

C5_Completeness ==
    (called /\ Crossing)
        => (~is_nan(result) /\ NearPoint(result, CommonPoint))

\* C6: segment1 non-degenerate, the parallelism test fires and the distance
\* length(cross(u, w0)) / length(u) is greater than 0: the NaN sentinel.
C6_ParallelApart ==
    (called /\ ~Degenerate(segment1)
        /\ LenLt(length(cross_product(Dir2, Dir1)), eps)
        /\ cross_product(Dir1, Offset) # ZeroVector)
        => result = NaNVector

C6_Witness ==
    /\ called /\ ~Degenerate(segment1) /\ ~Degenerate(segment2)
    /\ LenLt(length(cross_product(Dir2, Dir1)), eps)
    /\ cross_product(Dir1, Offset) # ZeroVector
    /\ result = NaNVector

\* C7: segment1 non-degenerate and segment2 on its line, lo and hi the
\* smaller and larger parameter of segment2's ends along segment1: the NaN
\* sentinel iff max(0, lo) > min(1, hi), otherwise P1 + u * max(0, lo).
C7_CollinearOverlap ==
    (called /\ Collinear)
        => /\ (result = NaNVector) <=> Lt(OverlapHi, OverlapLo)
           /\ ~Lt(OverlapHi, OverlapLo)
                => result = VAdd(segment1.start, VScale(Dir1, OverlapLo))

\* a proper overlap that starts inside segment1
C7_Witness ==
    /\ called /\ Collinear /\ ~Degenerate(segment2)
    /\ Lt(FromInt(0), OverlapLo) /\ Lt(OverlapLo, OverlapHi)
    /\ result = VAdd(segment1.start, VScale(Dir1, OverlapLo))
    /\ result # segment1.start

\* C9: segment1 of zero length whose single point is not on segment2: the
\* NaN of the division by zero reaches the result, the NaN sentinel.
C9_DegenerateFirst ==
    (called /\ Degenerate(segment1)
        /\ ~OnSegment(segment1.start, segment2))
        => result = NaNVector

ShouldPass(r, e) ==
    \/ is_nan(r) /\ is_nan(e)
    \/ ~is_nan(r) /\ ~is_nan(e) /\ NearPoint(r, e)

====
